---------------------------- MODULE Spec2Model ----------------------------
(***************************************************************************)
(* A model of tg-public-log-parser:                                        *)
(*   - parsers/game.rs      parse_line, the per-line classifier            *)
(*   - parsers/runtimes.rs  get_condensed_runtimes, the runtime aggregator *)
(*   - parsers/ip_filtering.rs  filter_ips, the address redactor           *)
(*   - ongoing_round_protection.rs  OngoingRoundProtection, the cache of   *)
(*     ongoing round ids, its callers and its refresh task                 *)
(*                                                                         *)
(* Text is modelled as a sequence of one-character strings, so that the    *)
(* string operations of the code (trim, split, starts_with, slicing, the   *)
(* regular expressions) are computed and not assumed.                      *)
(***************************************************************************)
EXTENDS Integers, Sequences, FiniteSets, TLC

VARIABLES
    \* ---- parsers/game.rs
    parts,      \* the pieces the input line was assembled from (history only)
    line,       \* the argument of parse_line
    gpc,        \* "start" before the call, "done" after it
    outcome,    \* what the call produced: a text, or a panic
    \* ---- parsers/runtimes.rs
    blocks,             \* the records the input was assembled from (history only)
    lines,              \* runtime_contents.lines()
    cursor,             \* number of lines the peekable iterator has consumed
    condensed_runtimes, \* the HashMap key -> value
    runtime_count,      \* the running total
    rpc,                \* "scan" inside 'main_loop, "sort" after it, "done"
    report,             \* the returned CondensedRuntimes
    \* ---- parsers/ip_filtering.rs
    unfiltered,         \* the argument contents of filter_ips
    redacted,           \* filter_ips(unfiltered)
    redacted_again,     \* filter_ips(filter_ips(unfiltered))
    fpc,                \* "start", "once" after one call, "twice" after two
    \* ---- ongoing_round_protection.rs
    config,                 \* config.paths_to_identifiers: None, or Some(map)
    last_known_round_ids,   \* the OnceCell: unset, or the cache it holds
    caches,                 \* the maps allocated by initial fetches, by identity
    permit,                 \* the caller running the OnceCell's initialiser
    round_id_loop,          \* the OnceLock: unset, or the cache the task holds
    cpc,                    \* each caller's position in path_is_ongoing_round
    ids,                    \* each caller's `ids`: the cache it was handed
    taskpc,                 \* the refresh task's position
    alive,                  \* the OngoingRoundProtection has not been dropped
    answer,                 \* what the step just taken returned, if it ended a call
    initial_fetches,        \* successful initial fetches so far (history only)
    spawned                 \* refresh tasks spawned so far (history only)

gameVars == <<parts, line, gpc, outcome>>
runtimeVars == <<blocks, lines, cursor, condensed_runtimes, runtime_count, rpc, report>>
filterVars == <<unfiltered, redacted, redacted_again, fpc>>
roundVars == <<config, last_known_round_ids, caches, permit, round_id_loop, cpc, ids,
               taskpc, alive, answer, initial_fetches, spawned>>
vars == <<parts, line, gpc, outcome,
          blocks, lines, cursor, condensed_runtimes, runtime_count, rpc, report,
          unfiltered, redacted, redacted_again, fpc,
          config, last_known_round_ids, caches, permit, round_id_loop, cpc, ids,
          taskpc, alive, answer, initial_fetches, spawned>>

(***************************************************************************)
(* Text helpers (str methods of the Rust standard library).                *)
(***************************************************************************)
IsWhitespace(c) == c \in {" ", "\t"}

IsDigit(c) == c \in {"0", "1", "2", "3", "4", "5", "6", "7", "8", "9"}

AllDigits(s) == \A i \in 1..Len(s) : IsDigit(s[i])

RECURSIVE TrimStart(_)
TrimStart(s) ==
    IF s # <<>> /\ IsWhitespace(s[1]) THEN TrimStart(Tail(s)) ELSE s

RECURSIVE TrimEnd(_)
TrimEnd(s) ==
    IF s # <<>> /\ IsWhitespace(s[Len(s)])
    THEN TrimEnd(SubSeq(s, 1, Len(s) - 1))
    ELSE s

\* str::trim
Trim(s) == TrimEnd(TrimStart(s))

\* str::starts_with
StartsWith(s, p) == Len(s) >= Len(p) /\ SubSeq(s, 1, Len(p)) = p

\* str::ends_with
EndsWith(s, p) == Len(s) >= Len(p) /\ SubSeq(s, Len(s) - Len(p) + 1, Len(s)) = p

\* whether p occurs in s starting at index i
ContainsAt(s, p, i) ==
    i >= 1 /\ i + Len(p) - 1 <= Len(s) /\ SubSeq(s, i, i + Len(p) - 1) = p

\* index of the first occurrence of character c in s, 0 when there is none
IndexOf(s, c) ==
    IF \E i \in 1..Len(s) : s[i] = c
    THEN CHOOSE i \in 1..Len(s) : s[i] = c /\ \A j \in 1..(i - 1) : s[j] # c
    ELSE 0

\* str::split(' '): always at least one piece, empty pieces kept
RECURSIVE Split(_, _)
Split(s, c) ==
    LET k == IndexOf(s, c) IN
    IF k = 0 THEN <<s>>
    ELSE <<SubSeq(s, 1, k - 1)>> \o Split(SubSeq(s, k + 1, Len(s)), c)

\* [&str]::join
RECURSIVE Join(_, _)
Join(ws, sep) ==
    IF ws = <<>> THEN <<>>
    ELSE IF Len(ws) = 1 THEN ws[1]
    ELSE ws[1] \o sep \o Join(Tail(ws), sep)

\* str::trim_start_matches: the prefix is removed as often as it occurs
RECURSIVE TrimStartMatches(_, _)
TrimStartMatches(s, p) ==
    IF p # <<>> /\ StartsWith(s, p)
    THEN TrimStartMatches(SubSeq(s, Len(p) + 1, Len(s)), p)
    ELSE s

(***************************************************************************)
(* Literals of parsers/game.rs.                                            *)
(***************************************************************************)
S_ACCESS == <<"A", "C", "C", "E", "S", "S">>
S_ADMIN == <<"A", "D", "M", "I", "N">>
S_ADMINPRIVATE == <<"A", "D", "M", "I", "N", "P", "R", "I", "V", "A", "T", "E">>
S_TOPIC == <<"T", "O", "P", "I", "C">>
S_SQL == <<"S", "Q", "L">>
S_Login == <<"L", "o", "g", "i", "n", ":">>
S_Failed == <<"F", "a", "i", "l", "e", "d">>
S_GameCompat == <<"G", "A", "M", "E", "-", "C", "O", "M", "P", "A", "T", ":">>
S_RoundStart == <<" ", "S", "t", "a", "r", "t", "i", "n", "g", " ", "u", "p", " ",
                  "r", "o", "u", "n", "d", " ", "I", "D", " ">>

\* the prefix removed from the category by trim_start_matches
GamePrefix == <<"G", "A", "M", "E", "-">>

\* censor!($kind)
Censor(kind) ==
    <<"-", "c", "e", "n", "s", "o", "r", "e", "d", "(">> \o kind \o <<")", "-">>

K_empty_line == <<"e", "m", "p", "t", "y", "_", "l", "i", "n", "e">>
K_no_ts_startAsRegexMismatch ==
    <<"n", "o", "_", "t", "s", "_", "r", "e", "g", "e", "x", "_", "m", "a", "t", "c", "h">>

K_no_ts_start == <<"n", "o", "_", "t", "s", "_", "s", "t", "a", "r", "t">>
K_no_category_colon == <<"n", "o", "_", "c", "a", "t", "e", "g", "o", "r", "y", "_",
                         "c", "o", "l", "o", "n">>
K_no_ts_regex_match == <<"n", "o", "_", "t", "s", "_", "r", "e", "g", "e", "x", "_",
                         "m", "a", "t", "c", "h">>
K_no_space_after_timestamp == <<"n", "o", "_", "s", "p", "a", "c", "e", "_", "a", "f",
                                "t", "e", "r", "_", "t", "i", "m", "e", "s", "t", "a",
                                "m", "p">>
K_game_compat_no_followup == <<"g", "a", "m", "e", "_", "c", "o", "m", "p", "a", "t",
                               "_", "n", "o", "_", "f", "o", "l", "l", "o", "w", "u",
                               "p">>
K_ip_cid == <<"i", "p", "/", "c", "i", "d">>
K_invalid_connection_data == <<"i", "n", "v", "a", "l", "i", "d", " ", "c", "o", "n",
                               "n", "e", "c", "t", "i", "o", "n", " ", "d", "a", "t",
                               "a">>
K_admin == <<"a", "s", "a", "y", "/", "a", "p", "m", "/", "a", "h", "e", "l", "p", "/",
             "n", "o", "t", "e", "s", "/", "e", "t", "c">>
K_private_logtype == <<"p", "r", "i", "v", "a", "t", "e", " ", "l", "o", "g", "t", "y",
                       "p", "e">>
K_world_topic_logs == <<"w", "o", "r", "l", "d", "_", "t", "o", "p", "i", "c", " ", "l",
                        "o", "g", "s">>
K_sql_logs == <<"s", "q", "l", " ", "l", "o", "g", "s">>

(***************************************************************************)
(* TIMESTAMP_REGEX:                                                        *)
(*   ^([0-9]{2}:[0-9]{2}:[0-9]{2}                                          *)
(*    |[0-9]{2,4}-[0-9]{2,4}-[0-9]{2,4} [0-9]{2}:[0-9]{2}:[0-9]{2}         *)
(*     (\.[0-9]{1,3})+)$                                                   *)
(***************************************************************************)
\* [0-9]{2}:[0-9]{2}:[0-9]{2}, the whole of s
ClockMatch(s) ==
    /\ Len(s) = 8
    /\ IsDigit(s[1]) /\ IsDigit(s[2]) /\ s[3] = ":"
    /\ IsDigit(s[4]) /\ IsDigit(s[5]) /\ s[6] = ":"
    /\ IsDigit(s[7]) /\ IsDigit(s[8])

\* (\.[0-9]{1,3})+, the whole of s
RECURSIVE FractionGroups(_)
FractionGroups(s) ==
    \E n \in 1..3 :
        /\ Len(s) >= n + 1
        /\ s[1] = "."
        /\ AllDigits(SubSeq(s, 2, n + 1))
        /\ \/ Len(s) = n + 1
           \/ FractionGroups(SubSeq(s, n + 2, Len(s)))

\* the date-time alternative, the whole of s
DateTimeMatch(s) ==
    \E a \in 2..4, b \in 2..4, c \in 2..4 :
        LET d == a + b + c + 2 IN
        /\ Len(s) >= d + 11
        /\ AllDigits(SubSeq(s, 1, a)) /\ s[a + 1] = "-"
        /\ AllDigits(SubSeq(s, a + 2, a + b + 1)) /\ s[a + b + 2] = "-"
        /\ AllDigits(SubSeq(s, a + b + 3, d))
        /\ s[d + 1] = " "
        /\ ClockMatch(SubSeq(s, d + 2, d + 9))
        /\ FractionGroups(SubSeq(s, d + 10, Len(s)))

TIMESTAMP_REGEX(s) == ClockMatch(s) \/ DateTimeMatch(s)

(***************************************************************************)
(* REGEX_SET of the ADMIN arm.  None of the patterns is anchored at the    *)
(* end, so each is a search for its literals in order.                     *)
(***************************************************************************)
\* ^.*/\(.*\)<tail>
NameRoleThen(s, tail) ==
    \E i \in 1..Len(s) :
        /\ ContainsAt(s, <<"/", "(">>, i)
        /\ \E j \in (i + 2)..Len(s) : ContainsAt(s, <<")">> \o tail, j)

\* ^[^:]*/\(.*\) ".*"
QuotedAfterNameRole(s) ==
    \E i \in 1..Len(s) :
        /\ \A k \in 1..(i - 1) : s[k] # ":"
        /\ ContainsAt(s, <<"/", "(">>, i)
        /\ \E j \in (i + 2)..Len(s) :
              /\ ContainsAt(s, <<")", " ", "\"">>, j)
              /\ \E m \in (j + 3)..Len(s) : s[m] = "\""

REGEX_SET(s) ==
    \/ StartsWith(s, <<"H", "E", "L", "P", ":">>)
    \/ StartsWith(s, <<"P", "M", ":">>)
    \/ StartsWith(s, <<"A", "S", "A", "Y", ":">>)
    \/ StartsWith(s, <<"<", "a">>)
    \/ NameRoleThen(s, <<" ", ":", " ">>)
    \/ NameRoleThen(s, <<" ", "a", "d", "d", "e", "d", " ", "n", "o", "t", "e", " ">>)
    \/ NameRoleThen(s, <<" ", "r", "e", "m", "o", "v", "e", "d", " ", "a", " ",
                         "n", "o", "t", "e", " ">>)
    \/ NameRoleThen(s, <<" ", "h", "a", "s", " ", "a", "d", "d", "e", "d", " ">>)
    \/ NameRoleThen(s, <<" ", "h", "a", "s", " ", "e", "d", "i", "t", "e", "d", " ">>)
    \/ QuotedAfterNameRole(s)

(***************************************************************************)
(* parse_line.  A call ends in a returned text or in a panic.              *)
(***************************************************************************)
Returned(text) == [kind |-> "ok", text |-> text]

\* a panic; site names the expression that panics
Panicked(site) == [kind |-> "panic", text |-> <<site>>]

CategoryOfKeepsPrefix(log_type) == SubSeq(log_type, 1, Len(log_type) - 1)

\* log_type[0..(log_type.len() - 1)].trim_start_matches("GAME-")
CategoryOf(log_type) ==
    TrimStartMatches(SubSeq(log_type, 1, Len(log_type) - 1), GamePrefix)

\* the "ACCESS" arm; rest is what the words iterator has left
AccessArm(trimmed, timestamp, log_type, rest) ==
    IF rest # <<>> /\ rest[1] = S_Login
    THEN LET words_vec == Tail(rest) IN
         \* ip_cid_index = words_vec.len() - 4: the subtraction overflows
         \* (debug build), or wraps and the index is out of bounds (release)
         IF Len(words_vec) < 4
         THEN Panicked("words_vec.len() - 4")
         ELSE Returned(timestamp \o <<"]", " ">> \o log_type \o <<" ">> \o S_Login
                       \o <<" ">>
                       \o Join([words_vec EXCEPT ![Len(words_vec) - 3] =
                                    Censor(K_ip_cid)], <<" ">>))
    ELSE IF rest # <<>> /\ rest[1] = S_Failed
    THEN Returned(Censor(K_invalid_connection_data))
    ELSE Returned(trimmed)

\* the "ADMIN" arm
AdminArm(trimmed, rest) ==
    IF REGEX_SET(Join(rest, <<" ">>))
    THEN Returned(Censor(K_admin))
    ELSE Returned(trimmed)

\* the match on the category (game.rs line 64)
Dispatch(trimmed, timestamp, log_type, rest) ==
    \* log_type.len() - 1 on an empty log_type: overflow (debug build), or a
    \* slice end out of range (release)
    IF log_type = <<>>
    THEN Panicked("log_type.len() - 1")
    ELSE LET category == CategoryOf(log_type) IN
         IF category = S_ACCESS THEN AccessArm(trimmed, timestamp, log_type, rest)
         ELSE IF category = S_ADMIN THEN AdminArm(trimmed, rest)
         ELSE IF category = S_ADMINPRIVATE THEN Returned(Censor(K_private_logtype))
         ELSE IF category = S_TOPIC THEN Returned(Censor(K_world_topic_logs))
         ELSE IF category = S_SQL THEN Returned(Censor(K_sql_logs))
         ELSE Returned(trimmed)

\* from `let mut words = contents.split(' ')` on (game.rs lines 43-64)
Categorise(trimmed, timestamp, contents) ==
    LET words == Split(contents, " ") IN
    IF words[1] # <<>>
    THEN Returned(Censor(K_no_space_after_timestamp))
    ELSE IF Len(words) < 2
    THEN Panicked("out of words")
    ELSE IF ~EndsWith(words[2], <<":">>)
    THEN Returned(Censor(K_no_category_colon))
    ELSE IF words[2] = S_GameCompat
    THEN IF Len(words) < 3
         THEN Returned(Censor(K_game_compat_no_followup))
         ELSE Dispatch(trimmed, timestamp, words[3], SubSeq(words, 4, Len(words)))
    ELSE Dispatch(trimmed, timestamp, words[2], SubSeq(words, 3, Len(words)))

RoundStartNotExempt(contents) == FALSE

\* contents.starts_with(" Starting up round ID ")
IsRoundStart(contents) == StartsWith(contents, S_RoundStart)

parse_line(raw) ==
    LET trimmed == Trim(raw) IN
    IF trimmed = <<>>
    THEN Returned(Censor(K_empty_line))
    ELSE IF trimmed[1] # "["
    THEN Returned(Censor(K_no_ts_start))
    ELSE LET k == IndexOf(trimmed, "]") IN
         IF k = 0
         THEN Returned(Censor(K_no_category_colon))
         ELSE LET timestamp == SubSeq(trimmed, 1, k - 1)
                  contents == SubSeq(trimmed, k + 1, Len(trimmed))
              IN  IF ~TIMESTAMP_REGEX(Tail(timestamp))
                  THEN Returned(Censor(K_no_ts_regex_match))
                  ELSE IF IsRoundStart(contents)
                  THEN Returned(trimmed)
                  ELSE Categorise(trimmed, timestamp, contents)

(***************************************************************************)
(* Input lines of parse_line.  A line is assembled from a head (the        *)
(* bracketed timestamp, or a damaged one), what separates it from the      *)
(* first word, the category words, the word after the category and the     *)
(* remaining words; parse_line sees only the assembled text.               *)
(***************************************************************************)
\* the largest number of words after the category and the word following it
MaxWords == 5

WordDigits == <<"1", "2", "3", "4", "5", "6", "7", "8", "9">>

\* the i-th remaining word: w1, w2, ...
Word(i) == <<"w", WordDigits[i]>>

\* n remaining words; with gap, the first two are two spaces apart, which
\* split(' ') reads as an empty word between them
WordsOf(n, gap) ==
    LET ws == [i \in 1..n |-> Word(i)] IN
    IF gap /\ n >= 2 THEN <<ws[1], <<>>>> \o Tail(ws) ELSE ws

H_clock == <<"[", "1", "2", ":", "0", "0", ":", "0", "0", "]">>
H_date == <<"[", "2", "0", "2", "3", "-", "1", "1", "-", "0", "2", " ", "1", "2", ":", "0", "0", ":", "0", "0", ".", "1", "2", "3", "]">>
H_nofraction == <<"[", "2", "0", "2", "3", "-", "1", "1", "-", "0", "2", " ", "1", "2", ":", "0", "0", ":", "0", "0", "]">>
H_open == <<"[", "1", "2", ":", "0", "0", ":", "0", "0">>

Heads == {H_clock, H_date, H_nofraction, H_open, <<>>}

Separators == {<<>>, <<" ">>, <<" ", " ">>}

Colon(t) == t \o <<":">>

\* the category words: none, one token, or GAME-COMPAT: and what follows it
Categories ==
    {<<>>,
     <<Colon(S_SQL)>>, <<Colon(GamePrefix \o S_SQL)>>,
     <<Colon(GamePrefix \o GamePrefix \o S_SQL)>>, <<S_SQL>>,
     <<Colon(S_ADMINPRIVATE)>>, <<Colon(GamePrefix \o S_TOPIC)>>,
     <<Colon(S_ACCESS)>>, <<Colon(GamePrefix \o S_ACCESS)>>,
     <<Colon(S_ADMIN)>>, <<Colon(<<"S", "A", "Y">>)>>, <<<<":">>>>,
     <<S_GameCompat>>,
     <<S_GameCompat, Colon(S_SQL)>>, <<S_GameCompat, S_SQL \o <<"x">>>>,
     <<S_GameCompat, S_TOPIC>>, <<S_GameCompat, Colon(S_ACCESS)>>,
     <<S_GameCompat, Colon(S_ADMIN)>>, <<S_GameCompat, <<>>, Colon(S_SQL)>>,
     <<S_GameCompat, S_GameCompat, Colon(S_SQL)>>,
     <<<<"S", "t", "a", "r", "t", "i", "n", "g">>, <<"u", "p">>, <<"r", "o", "u", "n", "d">>, <<"I", "D">>>>}

\* the word after the category: none, or one of these
Followers ==
    {<<>>, <<S_Login>>, <<S_Failed>>, <<<<"P", "M", ":">>>>,
     <<<<"B", "o", "b", "/", "(", "B", "o", "b", ")">>>>}

\* leading and trailing whitespace around the line
Paddings == {<<<<>>, <<>>>>, <<<<" ">>, <<"\t">>>>, <<<<>>, <<" ">>>>}

GameParts ==
    [pad : Paddings, head : Heads, sep : Separators, cat : Categories,
     next : Followers, words : {WordsOf(n, g) : n \in 0..MaxWords, g \in BOOLEAN}]

MkLine(p) ==
    p.pad[1] \o p.head \o p.sep \o Join(p.cat \o p.next \o p.words, <<" ">>)
    \o p.pad[2]

NoOutcome == [kind |-> "none", text |-> <<>>]

GameInit ==
    /\ parts \in GameParts
    /\ line = MkLine(parts)
    /\ gpc = "start"
    /\ outcome = NoOutcome

\* the call parse_line(line)
Classify ==
    /\ gpc = "start"
    /\ outcome' = parse_line(line)
    /\ gpc' = "done"
    /\ UNCHANGED <<parts, line>>
    /\ UNCHANGED <<runtimeVars, filterVars, roundVars>>

(***************************************************************************)
(* The other components at rest (each is checked on its own).              *)
(***************************************************************************)
NoReport == [total_count |-> 0, runtimes |-> <<>>]

RuntimeIdle ==
    /\ blocks = <<>>
    /\ lines = <<>>
    /\ cursor = 0
    /\ condensed_runtimes = <<>>
    /\ runtime_count = 0
    /\ rpc = "idle"
    /\ report = NoReport

GameIdle ==
    /\ parts = <<>>
    /\ line = <<>>
    /\ gpc = "idle"
    /\ outcome = NoOutcome

\* the redactor at rest
FilterIdle ==
    /\ unfiltered = <<>>
    /\ redacted = <<>>
    /\ redacted_again = <<>>
    /\ fpc = "idle"

NoAnswer == [path |-> <<>>, read |-> <<>>, result |-> "none"]

\* the round protection at rest: never constructed
RoundsIdle ==
    /\ config = <<>>
    /\ last_known_round_ids = <<>>
    /\ caches = <<>>
    /\ permit = "none"
    /\ round_id_loop = <<>>
    /\ cpc = <<>>
    /\ ids = <<>>
    /\ taskpc = "idle"
    /\ alive = FALSE
    /\ answer = NoAnswer
    /\ initial_fetches = 0
    /\ spawned = 0

InitGame == GameInit /\ RuntimeIdle /\ FilterIdle /\ RoundsIdle

NextGame == Classify

SpecGame == InitGame /\ [][NextGame]_vars


(***************************************************************************)
(* parsers/runtimes.rs.  A line of the runtime log is one of               *)
(*   start  "[..] runtime error: <a>"      RE_RUNTIME_ERROR_START, <a> may *)
(*                                         be empty                        *)
(*   proc   " - proc name: <a>" (b = "proc") or " - verb name: <a>"        *)
(*          (b = "verb")                   RE_RUNTIME_PROC_NAME            *)
(*   field  " -   <a>: <b>"                RE_RUNTIME_FIELD                *)
(*   other  anything else                                                  *)
(* The three patterns are anchored and begin with `[`, ` - p`/` - v` and   *)
(* ` -   `, so no line matches two of them.  An Option is <<>> for None    *)
(* and <<v>> for Some(v).                                                  *)
(***************************************************************************)
StartLine(message) == [kind |-> "start", a |-> message, b |-> ""]
ProcLine(how, name) == [kind |-> "proc", a |-> name, b |-> how]
FieldLine(field, value) == [kind |-> "field", a |-> field, b |-> value]
OtherLine == [kind |-> "other", a |-> "", b |-> ""]

\* RE_RUNTIME_ERROR_START.captures(l) is Some
IsRuntimeErrorStart(l) == l.kind = "start"

IsRuntimeProcNameProcOnly(l) == l.kind = "proc" /\ l.b = "proc"

\* RE_RUNTIME_PROC_NAME.captures(l) is Some
IsRuntimeProcName(l) == l.kind = "proc"

(***************************************************************************)
(* Inputs of get_condensed_runtimes: up to MaxBlocks blocks, each an       *)
(* announcement, the continuation lines of a multi-line message, the proc  *)
(* or verb name line (how = "none": the line is missing) and the detail    *)
(* lines that are present, in the order the game writes them; `late` holds  *)
(* detail lines written after those, out of that order.                    *)
(***************************************************************************)
MaxBlocks == 3

\* announcement and name line: a proc, a verb, a proc after a two-line message
BlockHeads ==
    {[message |-> "m1", how |-> "proc", proc_name |-> "p1", extra |-> 0],
     [message |-> "m1", how |-> "verb", proc_name |-> "p2", extra |-> 0],
     [message |-> "m2", how |-> "proc", proc_name |-> "p1", extra |-> 1]}

\* the detail lines: all four, usr and src only, usr missing, src missing
BlockDetails ==
    {[source_file |-> <<"f1">>, usr |-> <<"u1">>, src |-> <<"s1">>, src_loc |-> <<"l1">>],
     [source_file |-> <<>>, usr |-> <<"u2">>, src |-> <<"s2">>, src_loc |-> <<>>],
     [source_file |-> <<>>, usr |-> <<>>, src |-> <<"s1">>, src_loc |-> <<"l1">>],
     [source_file |-> <<"f1">>, usr |-> <<"u1">>, src |-> <<>>, src_loc |-> <<>>]}

MkBlock(h, d) ==
    [message |-> h.message, how |-> h.how, proc_name |-> h.proc_name,
     extra |-> h.extra, source_file |-> d.source_file, usr |-> d.usr,
     src |-> d.src, src_loc |-> d.src_loc, late |-> <<>>]

\* an announcement that no name line follows
UnterminatedBlock ==
    [message |-> "m1", how |-> "none", proc_name |-> "", extra |-> 0,
     source_file |-> <<>>, usr |-> <<>>, src |-> <<>>, src_loc |-> <<>>,
     late |-> <<>>]

\* the source file line comes after the usr line, and the src line after both
MisorderedBlock ==
    [message |-> "m1", how |-> "proc", proc_name |-> "p1", extra |-> 0,
     source_file |-> <<>>, usr |-> <<"u1">>, src |-> <<>>, src_loc |-> <<>>,
     late |-> <<FieldLine("source file", "f1"), FieldLine("src", "s1")>>]

Blocks ==
    {MkBlock(h, d) : h \in BlockHeads, d \in BlockDetails}
    \cup {UnterminatedBlock, MisorderedBlock}

OptionLine(field, option) ==
    IF option = <<>> THEN <<>> ELSE <<FieldLine(field, option[1])>>

BlockLines(b) ==
    <<StartLine(b.message)>>
    \o [i \in 1..b.extra |-> OtherLine]
    \o (IF b.how = "none" THEN <<>> ELSE <<ProcLine(b.how, b.proc_name)>>)
    \o OptionLine("source file", b.source_file)
    \o OptionLine("usr", b.usr)
    \o OptionLine("src", b.src)
    \o OptionLine("src.loc", b.src_loc)
    \o b.late

RECURSIVE Flatten(_)
Flatten(bs) == IF bs = <<>> THEN <<>> ELSE BlockLines(bs[1]) \o Flatten(Tail(bs))

BlockSeqs == UNION {[1..n -> Blocks] : n \in 0..MaxBlocks}

(***************************************************************************)
(* get_condensed_runtimes                                                  *)
(***************************************************************************)
KeyOfMessageOnly(message, proc_name) == [message |-> message, proc_name |-> ""]

\* CondensedRuntimeKey { message, proc_name }
KeyOf(message, proc_name) == [message |-> message, proc_name |-> proc_name]

read_fieldConsumesAnyField(c, expecting) ==
    IF c < Len(lines) /\ lines[c + 1].kind = "field"
    THEN [value |-> IF lines[c + 1].a = expecting THEN <<lines[c + 1].b>> ELSE <<>>,
          cursor |-> c + 1]
    ELSE [value |-> <<>>, cursor |-> c]

\* read_field(&mut lines, expecting) with the iterator at cursor c: the value
\* captured and the cursor afterwards
read_field(c, expecting) ==
    IF c < Len(lines) /\ lines[c + 1].kind = "field" /\ lines[c + 1].a = expecting
    THEN [value |-> <<lines[c + 1].b>>, cursor |-> c + 1]
    ELSE [value |-> <<>>, cursor |-> c]

\* the inner loop: the index of the first proc or verb name line after index c,
\* 0 when the iterator ends first
ProcNameIndex(c) ==
    LET found == {j \in (c + 1)..Len(lines) : IsRuntimeProcName(lines[j])} IN
    IF found = {} THEN 0
    ELSE CHOOSE j \in found : \A k \in found : j <= k

\* the key paired by the iteration that starts with the iterator at cursor c
PairedKey(c) == KeyOf(lines[c + 1].a, lines[ProcNameIndex(c + 1)].a)

\* the four reads of a new key, with the iterator at cursor c
ReadDetails(c) ==
    LET source_file == read_field(c, "source file")
        usr == read_field(source_file.cursor, "usr")
        src == read_field(usr.cursor, "src")
        src_loc == read_field(src.cursor, "src.loc")
    IN  [source_file |-> source_file, usr |-> usr, src |-> src, src_loc |-> src_loc]

KnownCursorPastDetails(c) == ReadDetails(c).src_loc.cursor

\* the iterator after `continue` at line 146, c being the name line's index:
\* nothing after the name line has been read
KnownCursor(c) == c

KnownValueOverwritesUsr(v, c) ==
    LET usr == read_field(c, "usr") IN
    [v EXCEPT !.count = @ + 1, !.usr = IF usr.value = <<>> THEN @ ELSE usr.value[1]]

\* the key is in the table (lines 144-147): c is the cursor, which stays
KnownValue(v, c) == [v EXCEPT !.count = @ + 1]

RuntimeCountAtBreakDiscarded(n) == n - 1

\* runtime_count when the inner loop breaks 'main_loop; n is its value after
\* line 123
RuntimeCountAtBreak(n) == n

RuntimeCountAtContinueDiscarded(n) == n - 1

\* runtime_count at the `continue` of a missing usr or src (lines 153, 158); n
\* is its value after line 123
RuntimeCountAtContinue(n) == n

MissingFieldStops == "sort"

\* `continue` after a missing usr or src: the scan goes on
AfterMissingField == "scan"

RuntimeInit ==
    /\ blocks \in BlockSeqs
    /\ lines = Flatten(blocks)
    /\ cursor = 0
    /\ condensed_runtimes = <<>>
    /\ runtime_count = 0
    /\ rpc = "scan"
    /\ report = NoReport

\* an iteration of 'main_loop may start: lines.next() is Some
InLoop == rpc = "scan" /\ cursor < Len(lines)

\* start_line is no announcement: continue
ScanSkip ==
    /\ InLoop
    /\ ~IsRuntimeErrorStart(lines[cursor + 1])
    /\ cursor' = cursor + 1
    /\ UNCHANGED <<blocks, lines, condensed_runtimes, runtime_count, rpc, report>>
    /\ UNCHANGED <<gameVars, filterVars, roundVars>>

\* an announcement, and the input ends before a name line: break 'main_loop
ScanTruncated ==
    /\ InLoop
    /\ IsRuntimeErrorStart(lines[cursor + 1])
    /\ ProcNameIndex(cursor + 1) = 0
    /\ runtime_count' = RuntimeCountAtBreak(runtime_count + 1)
    /\ cursor' = Len(lines)
    /\ rpc' = "sort"
    /\ UNCHANGED <<blocks, lines, condensed_runtimes, report>>
    /\ UNCHANGED <<gameVars, filterVars, roundVars>>

\* an announcement paired with a name line, the key already in the table
ScanKnown ==
    /\ InLoop
    /\ IsRuntimeErrorStart(lines[cursor + 1])
    /\ ProcNameIndex(cursor + 1) # 0
    /\ PairedKey(cursor) \in DOMAIN condensed_runtimes
    /\ runtime_count' = runtime_count + 1
    /\ cursor' = KnownCursor(ProcNameIndex(cursor + 1))
    /\ condensed_runtimes' =
           [condensed_runtimes EXCEPT ![PairedKey(cursor)] =
                KnownValue(@, ProcNameIndex(cursor + 1))]
    /\ UNCHANGED <<blocks, lines, rpc, report>>
    /\ UNCHANGED <<gameVars, filterVars, roundVars>>

\* a new key whose usr or src line is not where it is expected: continue
ScanDropped ==
    /\ InLoop
    /\ IsRuntimeErrorStart(lines[cursor + 1])
    /\ ProcNameIndex(cursor + 1) # 0
    /\ PairedKey(cursor) \notin DOMAIN condensed_runtimes
    /\ LET d == ReadDetails(ProcNameIndex(cursor + 1)) IN
       /\ d.usr.value = <<>> \/ d.src.value = <<>>
       /\ cursor' = IF d.usr.value = <<>> THEN d.usr.cursor ELSE d.src.cursor
    /\ runtime_count' = RuntimeCountAtContinue(runtime_count + 1)
    /\ rpc' = AfterMissingField
    /\ UNCHANGED <<blocks, lines, condensed_runtimes, report>>
    /\ UNCHANGED <<gameVars, filterVars, roundVars>>

\* a new key with its usr and src lines: insert, count 1
ScanInsert ==
    /\ InLoop
    /\ IsRuntimeErrorStart(lines[cursor + 1])
    /\ ProcNameIndex(cursor + 1) # 0
    /\ PairedKey(cursor) \notin DOMAIN condensed_runtimes
    /\ LET d == ReadDetails(ProcNameIndex(cursor + 1))
           value == [source_file |-> d.source_file.value, usr |-> d.usr.value[1],
                     src |-> d.src.value[1], src_loc |-> d.src_loc.value,
                     count |-> 1]
       IN  /\ d.usr.value # <<>> /\ d.src.value # <<>>
           /\ cursor' = d.src_loc.cursor
           /\ condensed_runtimes' =
                  [k \in DOMAIN condensed_runtimes \cup {PairedKey(cursor)} |->
                      IF k = PairedKey(cursor) THEN value ELSE condensed_runtimes[k]]
    /\ runtime_count' = runtime_count + 1
    /\ UNCHANGED <<blocks, lines, rpc, report>>
    /\ UNCHANGED <<gameVars, filterVars, roundVars>>

\* lines.next() is None: the loop ends
ScanEnd ==
    /\ rpc = "scan"
    /\ cursor = Len(lines)
    /\ rpc' = "sort"
    /\ UNCHANGED <<blocks, lines, cursor, condensed_runtimes, runtime_count, report>>
    /\ UNCHANGED <<gameVars, filterVars, roundVars>>

SortKeyAscending(count) == count

\* the sort key u64::MAX - count; count never exceeds the number of lines, so
\* the subtraction does not wrap and the keys are ordered as the negated counts
SortKey(count) == 0 - count

\* slice::sort_by_key is stable: x goes behind every element whose key is not
\* greater than its own
RECURSIVE InsertSorted(_, _)
InsertSorted(x, sorted) ==
    IF sorted = <<>> THEN <<x>>
    ELSE IF SortKey(sorted[1].count) <= SortKey(x.count)
    THEN <<sorted[1]>> \o InsertSorted(x, Tail(sorted))
    ELSE <<x>> \o sorted

RECURSIVE SortByKey(_)
SortByKey(v) ==
    IF v = <<>> THEN <<>>
    ELSE InsertSorted(v[Len(v)], SortByKey(SubSeq(v, 1, Len(v) - 1)))

\* CondensedRuntime { key, value }, flattened
CondensedRuntime(k) ==
    [message |-> k.message, proc_name |-> k.proc_name,
     source_file |-> condensed_runtimes[k].source_file,
     usr |-> condensed_runtimes[k].usr, src |-> condensed_runtimes[k].src,
     src_loc |-> condensed_runtimes[k].src_loc,
     count |-> condensed_runtimes[k].count]

\* the orders in which HashMap::into_iter may yield the keys
IterationOrders ==
    LET keys == DOMAIN condensed_runtimes
        n == Cardinality(keys)
    IN  {o \in [1..n -> keys] : \A i, j \in 1..n : i # j => o[i] # o[j]}

\* lines 176-185: collect in the map's iteration order, sort, return
SortAndReturn ==
    /\ rpc = "sort"
    /\ \E order \in IterationOrders :
           report' = [total_count |-> runtime_count,
                      runtimes |-> SortByKey([i \in 1..Len(order) |->
                                                  CondensedRuntime(order[i])])]
    /\ rpc' = "done"
    /\ UNCHANGED <<blocks, lines, cursor, condensed_runtimes, runtime_count>>
    /\ UNCHANGED <<gameVars, filterVars, roundVars>>

InitRuntimes == RuntimeInit /\ GameIdle /\ FilterIdle /\ RoundsIdle

NextRuntimes ==
    \/ ScanSkip
    \/ ScanTruncated
    \/ ScanKnown
    \/ ScanDropped
    \/ ScanInsert
    \/ ScanEnd
    \/ SortAndReturn

SpecRuntimes == InitRuntimes /\ [][NextRuntimes]_vars

(***************************************************************************)
(* parsers/ip_filtering.rs.  IP_REGEX is                                   *)
(*   (?:(?:25[0-5]|2[0-4][0-9]|1[0-9][0-9]|[1-9][0-9]|[0-9])\.){3}         *)
(*   (?:25[0-5]|2[0-4][0-9]|1[0-9][0-9]|[1-9][0-9]?|[0-9])                 *)
(* unanchored; the regex crate prefers the earlier alternative and yields  *)
(* the leftmost matches that do not overlap.                               *)
(***************************************************************************)
\* s has a character at i and it is one of cs
CharIn(s, i, cs) == i <= Len(s) /\ s[i] \in cs

\* 25[0-5]|2[0-4][0-9]|1[0-9][0-9] matches the three characters of s from i
ThreeDigitOctet(s, i) ==
    \/ /\ CharIn(s, i, {"2"}) /\ CharIn(s, i + 1, {"5"})
       /\ CharIn(s, i + 2, {"0", "1", "2", "3", "4", "5"})
    \/ /\ CharIn(s, i, {"2"}) /\ CharIn(s, i + 1, {"0", "1", "2", "3", "4"})
       /\ i + 2 <= Len(s) /\ IsDigit(s[i + 2])
    \/ /\ CharIn(s, i, {"1"})
       /\ i + 2 <= Len(s) /\ IsDigit(s[i + 1]) /\ IsDigit(s[i + 2])

\* [1-9][0-9] matches the two characters of s from i
TwoDigitOctet(s, i) ==
    /\ i + 1 <= Len(s)
    /\ IsDigit(s[i]) /\ s[i] # "0"
    /\ IsDigit(s[i + 1])

\* the length matched from i by one of the first three octets and its `\.`;
\* 0 if none.  The `.` must follow the octet, so at most one alternative
\* leads to a match.
OctetDot(s, i) ==
    IF ThreeDigitOctet(s, i) /\ CharIn(s, i + 3, {"."}) THEN 4
    ELSE IF TwoDigitOctet(s, i) /\ CharIn(s, i + 2, {"."}) THEN 3
    ELSE IF i <= Len(s) /\ IsDigit(s[i]) /\ CharIn(s, i + 1, {"."}) THEN 2
    ELSE 0

\* the length matched from i by the last octet: the first alternative that
\* matches, `[1-9][0-9]?` taking its optional digit when it can; 0 if none
LastOctet(s, i) ==
    IF ThreeDigitOctet(s, i) THEN 3
    ELSE IF TwoDigitOctet(s, i) THEN 2
    ELSE IF i <= Len(s) /\ IsDigit(s[i]) THEN 1
    ELSE 0

\* the length of the match of IP_REGEX that starts at i; 0 if there is none
IP_REGEX(s, i) ==
    LET a == OctetDot(s, i)
        b == OctetDot(s, i + a)
        c == OctetDot(s, i + a + b)
        d == LastOctet(s, i + a + b + c)
    IN  IF a > 0 /\ b > 0 /\ c > 0 /\ d > 0 THEN a + b + c + d ELSE 0

S_CensoredAsNullAddress == <<"0", ".", "0", ".", "0", ".", "0">>

\* the replacement "-censored-"
S_Censored == <<"-", "c", "e", "n", "s", "o", "r", "e", "d", "-">>

\* replace_all from position i on: the leftmost match is replaced and the
\* search resumes behind it
RECURSIVE ReplaceAllFrom(_, _)
ReplaceAllFrom(s, i) ==
    IF i > Len(s) THEN <<>>
    ELSE IF IP_REGEX(s, i) > 0
    THEN S_Censored \o ReplaceAllFrom(s, i + IP_REGEX(s, i))
    ELSE <<s[i]>> \o ReplaceAllFrom(s, i + 1)

filter_ips(s) == ReplaceAllFrom(s, 1)

(***************************************************************************)
(* Inputs of filter_ips: up to MaxPieces pieces with a separator between   *)
(* neighbours.  A piece is an octet-like run of digits, nothing, or a      *)
(* whole address.                                                          *)
(***************************************************************************)
MaxPieces == 4

FilterPieces ==
    {<<>>, <<"1">>, <<"0", "7">>, <<"2", "5", "6">>, <<"9", ".", "9", ".", "9", ".", "9">>}

FilterSeparators == {".", "x"}

\* the pieces ps joined by the separators seps
RECURSIVE Interleave(_, _)
Interleave(ps, seps) ==
    IF Len(ps) <= 1 THEN (IF ps = <<>> THEN <<>> ELSE ps[1])
    ELSE ps[1] \o <<seps[1]>> \o Interleave(Tail(ps), Tail(seps))

FilterInputs ==
    {<<>>} \cup
    UNION {{Interleave(ps, seps) : ps \in [1..n -> FilterPieces],
                                   seps \in [1..(n - 1) -> FilterSeparators]} :
           n \in 1..MaxPieces}

FilterInit ==
    /\ unfiltered \in FilterInputs
    /\ redacted = <<>>
    /\ redacted_again = <<>>
    /\ fpc = "start"

\* the call filter_ips(contents)
RedactOnce ==
    /\ fpc = "start"
    /\ redacted' = filter_ips(unfiltered)
    /\ fpc' = "once"
    /\ UNCHANGED <<unfiltered, redacted_again>>
    /\ UNCHANGED <<gameVars, runtimeVars, roundVars>>

\* the call filter_ips on what the first call returned
RedactAgain ==
    /\ fpc = "once"
    /\ redacted_again' = filter_ips(redacted)
    /\ fpc' = "twice"
    /\ UNCHANGED <<unfiltered, redacted>>
    /\ UNCHANGED <<gameVars, runtimeVars, roundVars>>

InitFilter == FilterInit /\ GameIdle /\ RuntimeIdle /\ RoundsIdle

NextFilter ==
    \/ RedactOnce
    \/ RedactAgain

SpecFilter == InitFilter /\ [][NextFilter]_vars

(***************************************************************************)
(* ongoing_round_protection.rs.  A map of round ids is a function from     *)
(* server identifiers to numbers.  The result of a call is "true" or       *)
(* "false" for Ok(true) and Ok(false), and "err" for Err.                  *)
(***************************************************************************)
DigitValue(c) ==
    CASE c = "0" -> 0 [] c = "1" -> 1 [] c = "2" -> 2 [] c = "3" -> 3 [] c = "4" -> 4
      [] c = "5" -> 5 [] c = "6" -> 6 [] c = "7" -> 7 [] c = "8" -> 8 [] c = "9" -> 9

RECURSIVE DecimalValue(_)
DecimalValue(s) ==
    IF s = <<>> THEN 0
    ELSE 10 * DecimalValue(SubSeq(s, 1, Len(s) - 1)) + DigitValue(s[Len(s)])

\* str::parse::<u64>: an optional `+`, then one or more digits; None for Err.
\* (A value above u64::MAX is an Err too; no text of the model is that long.)
ParseU64(s) ==
    LET digits == IF s # <<>> /\ s[1] = "+" THEN Tail(s) ELSE s IN
    IF digits = <<>> \/ ~AllDigits(digits) THEN <<>> ELSE <<DecimalValue(digits)>>

\* ---- fetch_ongoing_rounds
\* a Server of the document: data is None, or Some(ServerData)
ServerWithoutData == [data |-> <<>>]
Server(identifier, round_id) ==
    [data |-> <<[identifier |-> identifier, round_id |-> round_id]>>]

\* what the request yields: no successful reply, bytes that are no ServerInfo,
\* or a ServerInfo
Unreachable == [kind |-> "unreachable", servers |-> <<>>]
Malformed == [kind |-> "malformed", servers |-> <<>>]
ServerInfo(servers) == [kind |-> "servers", servers |-> servers]

FetchOk(round_ids) == [kind |-> "ok", round_ids |-> round_ids]
FetchErr == [kind |-> "err", round_ids |-> <<>>]
FetchPanic == [kind |-> "panic", round_ids |-> <<>>]

\* the servers filter_map keeps: data and round_id are Some
Reporting(servers) ==
    {i \in 1..Len(servers) :
        servers[i].data # <<>> /\ servers[i].data[1].round_id # <<>>}

\* HashMap::from_iter: of two entries with one identifier the later one stays
RoundIdsOf(servers) ==
    LET kept == Reporting(servers)
        last(s) == CHOOSE i \in kept :
                       /\ servers[i].data[1].identifier = s
                       /\ \A j \in kept : servers[j].data[1].identifier = s => j <= i
    IN  [s \in {servers[i].data[1].identifier : i \in kept} |->
            ParseU64(servers[last(s)].data[1].round_id[1])[1]]

fetch_ongoing_rounds(response) ==
    IF response.kind # "servers" THEN FetchErr
    ELSE IF \E i \in Reporting(response.servers) :
                ParseU64(response.servers[i].data[1].round_id[1]) = <<>>
    \* round_id.parse().expect("invalid round id")
    THEN FetchPanic
    ELSE FetchOk(RoundIdsOf(response.servers))

\* ---- path_is_ongoing_round
S_RoundDash == <<"r", "o", "u", "n", "d", "-">>
DotDot == <<".", ".">>

MappedAnswerOnlyNewer(round_id, ongoing_round_id) == round_id > ongoing_round_id

\* Ok(round_id >= ongoing_round_id)
MappedAnswer(round_id, ongoing_round_id) == round_id >= ongoing_round_id

Bool(b) == IF b THEN "true" ELSE "false"

\* the loop over path.ancestors(), at the ancestor made of the first n
\* components of the path; round_ids is the locked map.  file_name() is None
\* for an ancestor that ends in `..`, and for the last ancestor (n = 0).
RECURSIVE Ancestors(_, _, _)
Ancestors(path, n, round_ids) ==
    IF n = 0 \/ path[n] = DotDot THEN "false"
    ELSE LET filename == path[n] IN
         IF ~StartsWith(filename, S_RoundDash) THEN Ancestors(path, n - 1, round_ids)
         ELSE LET round_id ==
                      ParseU64(SubSeq(filename, Len(S_RoundDash) + 1, Len(filename)))
              IN  IF round_id = <<>> THEN "err"
                  ELSE IF config # <<>>
                  THEN IF /\ filename \in DOMAIN config[1]
                          /\ config[1][filename] \in DOMAIN round_ids
                       THEN Bool(MappedAnswer(round_id[1],
                                              round_ids[config[1][filename]]))
                       ELSE Ancestors(path, n - 1, round_ids)
                  ELSE IF \E s \in DOMAIN round_ids : round_ids[s] = round_id[1]
                  THEN "true"
                  ELSE Ancestors(path, n - 1, round_ids)

(***************************************************************************)
(* The round protection with its callers.  Each caller calls               *)
(* path_is_ongoing_round again and again; the calls interleave at their    *)
(* awaits and between the OnceCell and the OnceLock.  The path of a call   *)
(* is drawn when the call reads it, in the loop over its ancestors.        *)
(***************************************************************************)
Callers == {"c1", "c2"}

\* the longest path, in components
MaxDepth == 2

RoundDir(text) == S_RoundDash \o text

PathComponents ==
    {<<"l", "o", "g", "s">>, RoundDir(<<"2">>), RoundDir(<<"3">>), RoundDir(<<"x">>),
     DotDot}

Paths == UNION {[1..n -> PathComponents] : n \in 0..MaxDepth}

\* paths_to_identifiers: not configured, or Some of a map from the name of a
\* round directory to a server identifier
Configs ==
    {<<>>,
     <<[f \in {RoundDir(<<"2">>), RoundDir(<<"3">>)} |->
           IF f = RoundDir(<<"2">>) THEN "s1" ELSE "s2"]>>}

\* what the serverinfo endpoint may answer
Responses ==
    {Unreachable, Malformed,
     ServerInfo(<<Server("s1", <<<<"2">>>>)>>),
     ServerInfo(<<Server("s1", <<<<"3">>>>), Server("s2", <<<<"2">>>>)>>),
     ServerInfo(<<ServerWithoutData, Server("s2", <<>>)>>),
     ServerInfo(<<Server("s1", <<<<"2">>>>), Server("s2", <<<<"x">>>>)>>)}

RoundsInit ==
    /\ config \in Configs
    /\ last_known_round_ids = <<>>
    /\ caches = <<>>
    /\ permit = "none"
    /\ round_id_loop = <<>>
    /\ cpc = [c \in Callers |-> "idle"]
    /\ ids = [c \in Callers |-> 0]
    /\ taskpc = "unspawned"
    /\ alive = TRUE
    /\ answer = NoAnswer
    /\ initial_fetches = 0
    /\ spawned = 0

\* a call of path_is_ongoing_round begins: self.last_known_round_ids()
Call(c) ==
    /\ alive
    /\ cpc[c] = "idle"
    /\ cpc' = [cpc EXCEPT ![c] = "init"]
    /\ answer' = NoAnswer
    /\ UNCHANGED <<config, last_known_round_ids, caches, permit, round_id_loop, ids,
                   taskpc, alive, initial_fetches, spawned>>
    /\ UNCHANGED <<gameVars, runtimeVars, filterVars>>

\* get_or_try_init on a cell that is set: the value it holds
InitSkip(c) ==
    /\ cpc[c] = "init"
    /\ last_known_round_ids # <<>>
    /\ ids' = [ids EXCEPT ![c] = last_known_round_ids[1]]
    /\ cpc' = [cpc EXCEPT ![c] = "spawn"]
    /\ answer' = NoAnswer
    /\ UNCHANGED <<config, last_known_round_ids, caches, permit, round_id_loop,
                   taskpc, alive, initial_fetches, spawned>>
    /\ UNCHANGED <<gameVars, runtimeVars, filterVars>>

PermitAlwaysFree == TRUE

\* the OnceCell's semaphore has its one permit: no initialiser is running
PermitFree == permit = "none"

\* get_or_try_init on an unset cell: with the permit, the initialiser starts
\* and awaits fetch_ongoing_rounds
InitBegin(c) ==
    /\ cpc[c] = "init"
    /\ last_known_round_ids = <<>>
    /\ PermitFree
    /\ permit' = c
    /\ cpc' = [cpc EXCEPT ![c] = "fetching"]
    /\ answer' = NoAnswer
    /\ UNCHANGED <<config, last_known_round_ids, caches, round_id_loop, ids,
                   taskpc, alive, initial_fetches, spawned>>
    /\ UNCHANGED <<gameVars, runtimeVars, filterVars>>

\* the initial fetch is Ok: a new map is allocated and the cell set to it
InitFetchOk(c) ==
    /\ cpc[c] = "fetching"
    /\ \E response \in Responses :
           /\ fetch_ongoing_rounds(response).kind = "ok"
           /\ caches' = Append(caches, fetch_ongoing_rounds(response).round_ids)
    /\ last_known_round_ids' = <<Len(caches) + 1>>
    /\ ids' = [ids EXCEPT ![c] = Len(caches) + 1]
    /\ initial_fetches' = initial_fetches + 1
    /\ permit' = "none"
    /\ cpc' = [cpc EXCEPT ![c] = "spawn"]
    /\ answer' = NoAnswer
    /\ UNCHANGED <<config, round_id_loop, taskpc, alive, spawned>>
    /\ UNCHANGED <<gameVars, runtimeVars, filterVars>>

\* the initial fetch is Err: `?` returns it from path_is_ongoing_round
InitFetchErr(c) ==
    /\ cpc[c] = "fetching"
    /\ \E response \in Responses : fetch_ongoing_rounds(response).kind = "err"
    /\ permit' = "none"
    /\ cpc' = [cpc EXCEPT ![c] = "idle"]
    /\ answer' = [path |-> <<>>, read |-> <<>>, result |-> "err"]
    /\ UNCHANGED <<config, last_known_round_ids, caches, round_id_loop, ids,
                   taskpc, alive, initial_fetches, spawned>>
    /\ UNCHANGED <<gameVars, runtimeVars, filterVars>>

\* the initial fetch panics: the caller unwinds, which releases the permit
InitFetchPanic(c) ==
    /\ cpc[c] = "fetching"
    /\ \E response \in Responses : fetch_ongoing_rounds(response).kind = "panic"
    /\ permit' = "none"
    /\ cpc' = [cpc EXCEPT ![c] = "panicked"]
    /\ answer' = NoAnswer
    /\ UNCHANGED <<config, last_known_round_ids, caches, round_id_loop, ids,
                   taskpc, alive, initial_fetches, spawned>>
    /\ UNCHANGED <<gameVars, runtimeVars, filterVars>>

\* round_id_loop.get_or_init: the first caller spawns the refresh task, which
\* holds a clone of the caller's `ids`
Spawn(c) ==
    /\ cpc[c] = "spawn"
    /\ IF round_id_loop = <<>>
       THEN /\ round_id_loop' = <<ids[c]>>
            /\ taskpc' = "sleep"
            /\ spawned' = spawned + 1
       ELSE UNCHANGED <<round_id_loop, taskpc, spawned>>
    /\ cpc' = [cpc EXCEPT ![c] = "query"]
    /\ answer' = NoAnswer
    /\ UNCHANGED <<config, last_known_round_ids, caches, permit, ids, alive,
                   initial_fetches>>
    /\ UNCHANGED <<gameVars, runtimeVars, filterVars>>

\* the map is locked, the ancestors of the path are walked, the call returns
Query(c) ==
    /\ cpc[c] = "query"
    /\ \E path \in Paths :
           answer' = [path |-> path, read |-> <<caches[ids[c]]>>,
                      result |-> Ancestors(path, Len(path), caches[ids[c]])]
    /\ cpc' = [cpc EXCEPT ![c] = "idle"]
    /\ ids' = [ids EXCEPT ![c] = 0]
    /\ UNCHANGED <<config, last_known_round_ids, caches, permit, round_id_loop,
                   taskpc, alive, initial_fetches, spawned>>
    /\ UNCHANGED <<gameVars, runtimeVars, filterVars>>

\* ---- the refresh task (lines 85-100)
ReplacedByExtending(old, new) ==
    [s \in DOMAIN old \cup DOMAIN new |-> IF s \in DOMAIN new THEN new[s] ELSE old[s]]

\* *last_known_round_ids.lock() = round_ids: the map is assigned as a whole
Replaced(old, new) == new

\* the sleep of 60 seconds ends and fetch_ongoing_rounds is awaited
TaskWake ==
    /\ taskpc = "sleep"
    /\ taskpc' = "fetching"
    /\ answer' = NoAnswer
    /\ UNCHANGED <<config, last_known_round_ids, caches, permit, round_id_loop, cpc,
                   ids, alive, initial_fetches, spawned>>
    /\ UNCHANGED <<gameVars, runtimeVars, filterVars>>

\* the refresh is Ok: *last_known_round_ids.lock() = round_ids
TaskFetchOk ==
    /\ taskpc = "fetching"
    /\ \E response \in Responses :
           /\ fetch_ongoing_rounds(response).kind = "ok"
           /\ caches' = [caches EXCEPT ![round_id_loop[1]] =
                             Replaced(@, fetch_ongoing_rounds(response).round_ids)]
    /\ taskpc' = "sleep"
    /\ answer' = NoAnswer
    /\ UNCHANGED <<config, last_known_round_ids, permit, round_id_loop, cpc, ids,
                   alive, initial_fetches, spawned>>
    /\ UNCHANGED <<gameVars, runtimeVars, filterVars>>

\* the refresh is Err: the error is logged
TaskFetchErr ==
    /\ taskpc = "fetching"
    /\ \E response \in Responses : fetch_ongoing_rounds(response).kind = "err"
    /\ taskpc' = "failed"
    /\ answer' = NoAnswer
    /\ UNCHANGED <<config, last_known_round_ids, caches, permit, round_id_loop, cpc,
                   ids, alive, initial_fetches, spawned>>
    /\ UNCHANGED <<gameVars, runtimeVars, filterVars>>

\* `continue`: the loop starts over with the sleep
TaskContinue ==
    /\ taskpc = "failed"
    /\ taskpc' = "sleep"
    /\ answer' = NoAnswer
    /\ UNCHANGED <<config, last_known_round_ids, caches, permit, round_id_loop, cpc,
                   ids, alive, initial_fetches, spawned>>
    /\ UNCHANGED <<gameVars, runtimeVars, filterVars>>

\* the refresh panics inside the spawned task: the task ends
TaskFetchPanic ==
    /\ taskpc = "fetching"
    /\ \E response \in Responses : fetch_ongoing_rounds(response).kind = "panic"
    /\ taskpc' = "panicked"
    /\ answer' = NoAnswer
    /\ UNCHANGED <<config, last_known_round_ids, caches, permit, round_id_loop, cpc,
                   ids, alive, initial_fetches, spawned>>
    /\ UNCHANGED <<gameVars, runtimeVars, filterVars>>

\* Drop, possible once no call borrows the value: the task is aborted
Drop ==
    /\ alive
    /\ \A c \in Callers : cpc[c] \in {"idle", "panicked"}
    /\ alive' = FALSE
    /\ taskpc' = IF taskpc \in {"sleep", "fetching", "failed"} THEN "aborted" ELSE taskpc
    /\ answer' = NoAnswer
    /\ UNCHANGED <<config, last_known_round_ids, caches, permit, round_id_loop, cpc,
                   ids, initial_fetches, spawned>>
    /\ UNCHANGED <<gameVars, runtimeVars, filterVars>>

CallerStep(c) ==
    \/ Call(c)
    \/ InitSkip(c)
    \/ InitBegin(c)
    \/ InitFetchOk(c)
    \/ InitFetchErr(c)
    \/ InitFetchPanic(c)
    \/ Spawn(c)
    \/ Query(c)

TaskFetched == TaskFetchOk \/ TaskFetchErr \/ TaskFetchPanic

InitRounds == RoundsInit /\ GameIdle /\ RuntimeIdle /\ FilterIdle

NextRounds ==
    \/ \E c \in Callers : CallerStep(c)
    \/ TaskWake
    \/ TaskFetched
    \/ TaskContinue
    \/ Drop

SpecRounds == InitRounds /\ [][NextRounds]_vars

\* the timer fires, a request ends in a reply or an error, and a task that
\* can run is run
SpecRoundsFair ==
    /\ SpecRounds
    /\ WF_vars(TaskWake)
    /\ WF_vars(TaskFetched)
    /\ WF_vars(TaskContinue)

(***************************************************************************)
(* Properties of get_condensed_runtimes.  They are stated over the blocks  *)
(* the input was assembled from, and over the report.                      *)
(***************************************************************************)
\* the block has its proc or verb name line
ClaimTerminated(b) == b.how # "none"

\* the block has its usr and its src line
ClaimComplete(b) == b.usr # <<>> /\ b.src # <<>>

ClaimKey(b) == [message |-> b.message, proc_name |-> b.proc_name]

\* the input is well-formed: a sequence of complete runtime records
ClaimWellFormed == \A i \in 1..Len(blocks) : ClaimTerminated(blocks[i])

\* the positions of the blocks with key k
ClaimBlocksOf(k) == {i \in 1..Len(blocks) : ClaimKey(blocks[i]) = k}

ClaimKeys == {ClaimKey(blocks[i]) : i \in 1..Len(blocks)}

ClaimMin(S) == CHOOSE i \in S : \A j \in S : i <= j

\* the positions of the records of the report with key k
ClaimRecordsOf(k) ==
    {i \in 1..Len(report.runtimes) :
        /\ report.runtimes[i].message = k.message
        /\ report.runtimes[i].proc_name = k.proc_name}

RECURSIVE ClaimSumCounts(_)
ClaimSumCounts(rs) ==
    IF rs = <<>> THEN 0 ELSE rs[1].count + ClaimSumCounts(Tail(rs))

\* the number of blocks that have their name line
ClaimTerminatedCount == Cardinality({i \in 1..Len(blocks) : ClaimTerminated(blocks[i])})

\* the input ends in an announcement that no name line follows
ClaimTrailingAnnouncement ==
    Len(blocks) >= 1 /\ ~ClaimTerminated(blocks[Len(blocks)])

\* C3: for a well-formed input of N records with K distinct keys, total_count
\* is N and there are at most K records, exactly K unless the first occurrence
\* of some key lacks its usr or src line.
C3_CountsOfWellFormedInput ==
    (rpc = "done" /\ ClaimWellFormed) =>
        /\ report.total_count = Len(blocks)
        /\ Len(report.runtimes) <= Cardinality(ClaimKeys)
        /\ (\A k \in ClaimKeys : ClaimComplete(blocks[ClaimMin(ClaimBlocksOf(k))]))
               => Len(report.runtimes) = Cardinality(ClaimKeys)

\* C3's case: three records with two keys, both keys reported
C3_Witness ==
    /\ rpc = "done"
    /\ ClaimWellFormed
    /\ Len(blocks) = 3
    /\ Cardinality(ClaimKeys) = 2
    /\ \A k \in ClaimKeys : ClaimComplete(blocks[ClaimMin(ClaimBlocksOf(k))])
    /\ report.total_count = 3
    /\ Len(report.runtimes) = 2

ClaimFrozenStep ==
    \A k \in DOMAIN condensed_runtimes :
        /\ k \in DOMAIN condensed_runtimes'
        /\ condensed_runtimes'[k].source_file = condensed_runtimes[k].source_file
        /\ condensed_runtimes'[k].usr = condensed_runtimes[k].usr
        /\ condensed_runtimes'[k].src = condensed_runtimes[k].src
        /\ condensed_runtimes'[k].src_loc = condensed_runtimes[k].src_loc
        /\ condensed_runtimes'[k].count \in
               {condensed_runtimes[k].count, condensed_runtimes[k].count + 1}

\* the blocks of a key whose blocks all have usr and src end as one record:
\* its count the number of blocks, its fields those of the first block
ClaimFirstBlockKept ==
    (rpc = "done" /\ ClaimWellFormed) =>
        \A k \in ClaimKeys :
            (\A i \in ClaimBlocksOf(k) : ClaimComplete(blocks[i])) =>
                /\ Cardinality(ClaimRecordsOf(k)) = 1
                /\ LET r == report.runtimes[ClaimMin(ClaimRecordsOf(k))]
                       first == blocks[ClaimMin(ClaimBlocksOf(k))]
                   IN  /\ r.count = Cardinality(ClaimBlocksOf(k))
                       /\ r.source_file = first.source_file
                       /\ r.usr = first.usr[1]
                       /\ r.src = first.src[1]
                       /\ r.src_loc = first.src_loc

\* C5: once a record exists, a later occurrence of its key only raises its
\* count by one and leaves source_file, usr, src and src_loc as they are; so
\* blocks with one key and different details end as one record with the
\* number of blocks as count and the first block's fields.
C5_FirstOccurrenceFrozen == [][ClaimFrozenStep]_vars /\ []ClaimFirstBlockKept

\* C5's case: three blocks of one key, the usr of the second differing from
\* the first's, reported as one record with the first block's usr
C5_Witness ==
    /\ rpc = "done"
    /\ Len(blocks) = 3
    /\ Cardinality(ClaimKeys) = 1
    /\ \A i \in 1..3 : ClaimTerminated(blocks[i]) /\ ClaimComplete(blocks[i])
    /\ blocks[2].usr # blocks[1].usr
    /\ Len(report.runtimes) = 1
    /\ report.runtimes[1].count = 3
    /\ report.runtimes[1].usr = blocks[1].usr[1]

\* the positions, among the blocks of key k, from its first block with usr and
\* src on
ClaimFromFirstComplete(k) ==
    LET complete == {i \in ClaimBlocksOf(k) : ClaimComplete(blocks[i])} IN
    IF complete = {} THEN {}
    ELSE {i \in ClaimBlocksOf(k) : i >= ClaimMin(complete)}

\* C6: an occurrence of a new key without its usr or src line inserts no
\* record and is counted in total_count, and the scan goes on: every later
\* record is counted and aggregated.
C6_DroppedOccurrenceCounted ==
    (rpc = "done" /\ ClaimWellFormed) =>
        /\ report.total_count = Len(blocks)
        /\ \A k \in ClaimKeys :
               IF ClaimFromFirstComplete(k) = {}
               THEN ClaimRecordsOf(k) = {}
               ELSE /\ Cardinality(ClaimRecordsOf(k)) = 1
                    /\ report.runtimes[ClaimMin(ClaimRecordsOf(k))].count =
                           Cardinality(ClaimFromFirstComplete(k))

\* C6's case: the first block lacks usr or src, the same key comes again with
\* both, and a record of another key follows
C6_Witness ==
    /\ rpc = "done"
    /\ ClaimWellFormed
    /\ Len(blocks) = 3
    /\ ~ClaimComplete(blocks[1])
    /\ ClaimKey(blocks[2]) = ClaimKey(blocks[1]) /\ ClaimComplete(blocks[2])
    /\ ClaimKey(blocks[3]) # ClaimKey(blocks[1]) /\ ClaimComplete(blocks[3])
    /\ report.total_count = 3
    /\ Len(report.runtimes) = 2
    /\ ClaimSumCounts(report.runtimes) = 2

\* C7: in the report, of two consecutive records the earlier one's count is
\* greater than or equal to the later one's.
C7_SortedByDescendingCount ==
    rpc = "done" =>
        \A i \in 1..(Len(report.runtimes) - 1) :
            report.runtimes[i].count >= report.runtimes[i + 1].count

\* C7's case: the key seen first has the smaller count and is reported last
C7_Witness ==
    /\ rpc = "done"
    /\ Len(report.runtimes) = 2
    /\ report.runtimes[1].count = 2
    /\ report.runtimes[2].count = 1
    /\ ClaimKey(blocks[1]) = [message |-> report.runtimes[2].message,
                              proc_name |-> report.runtimes[2].proc_name]

\* the sum of the counts of the records stored under the keys S
RECURSIVE ClaimSumStored(_)
ClaimSumStored(S) ==
    IF S = {} THEN 0
    ELSE LET k == CHOOSE x \in S : TRUE IN
         condensed_runtimes[k].count + ClaimSumStored(S \ {k})

\* the occurrences dropped from block i on: an announcement is paired with the
\* next name line, and the occurrence is dropped when its key is new and the
\* block of the name line lacks usr or src where they are expected.  pending
\* is the message of an announcement still waiting for its name line, known
\* the keys stored so far.
RECURSIVE ClaimDropped(_, _, _)
ClaimDropped(i, pending, known) ==
    IF i > Len(blocks) THEN 0
    ELSE LET b == blocks[i]
             message == IF pending = <<>> THEN b.message ELSE pending[1]
             k == [message |-> message, proc_name |-> b.proc_name]
         IN  IF ~ClaimTerminated(b) THEN ClaimDropped(i + 1, <<message>>, known)
             ELSE IF k \in known THEN ClaimDropped(i + 1, <<>>, known)
             ELSE IF ClaimComplete(b) THEN ClaimDropped(i + 1, <<>>, known \cup {k})
             ELSE 1 + ClaimDropped(i + 1, <<>>, known)

\* at every point of the scan each stored count is at least 1 and the stored
\* counts sum to no more than the running total
ClaimStoredWithinTotal ==
    /\ \A k \in DOMAIN condensed_runtimes : condensed_runtimes[k].count >= 1
    /\ ClaimSumStored(DOMAIN condensed_runtimes) <= runtime_count

ClaimAtAnnouncement ==
    /\ rpc = "scan"
    /\ cursor < Len(lines)
    /\ lines[cursor + 1].kind = "start"

\* the indexes of the proc and verb name lines after the announcement
ClaimNameLines == {j \in (cursor + 2)..Len(lines) : lines[j].kind = "proc"}

\* the first of them
ClaimNameLine == ClaimMin(ClaimNameLines)

\* the announcement's message with the name of the first name line after it
ClaimPairedKey ==
    [message |-> lines[cursor + 1].a, proc_name |-> lines[ClaimNameLine].a]

\* an announcement that a name line follows: whatever lies between them is
\* skipped, the occurrence is counted, and it either adds one to the count of
\* its key or, its key being new, is inserted with count 1 or dropped
ClaimPairedStep ==
    (ClaimAtAnnouncement /\ ClaimNameLines # {}) =>
        /\ runtime_count' = runtime_count + 1
        /\ rpc' = "scan"
        /\ cursor' >= ClaimNameLine
        /\ cursor' <= ClaimNameLine + 4
        /\ IF ClaimPairedKey \in DOMAIN condensed_runtimes
           THEN /\ DOMAIN condensed_runtimes' = DOMAIN condensed_runtimes
                /\ condensed_runtimes'[ClaimPairedKey].count =
                       condensed_runtimes[ClaimPairedKey].count + 1
           ELSE \/ condensed_runtimes' = condensed_runtimes
                \/ /\ DOMAIN condensed_runtimes' =
                          DOMAIN condensed_runtimes \cup {ClaimPairedKey}
                   /\ condensed_runtimes'[ClaimPairedKey].count = 1
                   /\ \A k \in DOMAIN condensed_runtimes :
                          condensed_runtimes'[k] = condensed_runtimes[k]

\* C14: an announcement followed by any number of lines that are no name
\* lines and then by a ` - proc name: <name>` or ` - verb name: <name>` line
\* is paired into one occurrence with the announcement's message and <name>;
\* a verb line is accepted like a proc line, the lines between are skipped.
C14_AnnouncementPairedWithNameLine == [][ClaimPairedStep]_vars

\* C14's case: a lone announcement m1, then an announcement m2 with a
\* continuation line and the proc line p1, then m1 with the verb line p2, were
\* condensed into the records (m1, p1) and (m1, p2)
C14_Witness ==
    /\ rpc = "done"
    /\ Len(blocks) = 3
    /\ blocks[1] = UnterminatedBlock
    /\ blocks[2].message = "m2" /\ blocks[2].extra = 1 /\ ClaimComplete(blocks[2])
    /\ blocks[3].how = "verb" /\ ClaimComplete(blocks[3])
    /\ report.total_count = 2
    /\ {<<r.message, r.proc_name, r.count>> :
            r \in {report.runtimes[i] : i \in 1..Len(report.runtimes)}}
       = {<<"m1", "p1", 1>>, <<"m1", "p2", 1>>}

\* a paired occurrence whose key is in the table: the count goes up and the
\* iterator rests on the name line, the lines after it unread
ClaimKnownKeyStep ==
    (/\ ClaimAtAnnouncement
     /\ ClaimNameLines # {}
     /\ ClaimPairedKey \in DOMAIN condensed_runtimes) =>
        /\ cursor' = ClaimNameLine
        /\ condensed_runtimes' =
               [condensed_runtimes EXCEPT ![ClaimPairedKey].count = @ + 1]

\* C18: when the paired key is already in the table the scanner increments
\* its count and leaves the line cursor where it is, right after the name
\* line; the detail lines that follow are not consumed by that step.
C18_KnownKeyLeavesDetails == [][ClaimKnownKeyStep]_vars

\* C18's case: the second of two equal blocks with all four detail lines has
\* been counted, and the iterator rests before its source file line
C18_Witness ==
    /\ rpc = "scan"
    /\ Len(blocks) >= 2
    /\ blocks[1] = blocks[2]
    /\ ClaimComplete(blocks[1]) /\ blocks[1].source_file # <<>>
    /\ cursor = Len(BlockLines(blocks[1])) + 2 + blocks[2].extra
    /\ lines[cursor].kind = "proc"
    /\ lines[cursor + 1] = FieldLine("source file", blocks[2].source_file[1])
    /\ condensed_runtimes[ClaimKey(blocks[1])].count = 2

\* line i is the detail line of the field
ClaimIsField(i, field) ==
    i <= Len(lines) /\ lines[i].kind = "field" /\ lines[i].a = field

\* the line's value if it is the detail line of the field, else None
ClaimFieldValue(i, field) ==
    IF ClaimIsField(i, field) THEN <<lines[i].b>> ELSE <<>>

\* a paired occurrence with a new key: source file, usr, src and src.loc are
\* looked for in that order, each at the line after the last line taken; a
\* line is taken only if it is the detail line looked for
ClaimNewKeyStep ==
    (/\ ClaimAtAnnouncement
     /\ ClaimNameLines # {}
     /\ ClaimPairedKey \notin DOMAIN condensed_runtimes) =>
        LET c1 == ClaimNameLine
                  + (IF ClaimIsField(ClaimNameLine + 1, "source file") THEN 1 ELSE 0)
            c4 == c1 + 2 + (IF ClaimIsField(c1 + 3, "src.loc") THEN 1 ELSE 0)
        IN  IF ~ClaimIsField(c1 + 1, "usr")
            THEN cursor' = c1 /\ condensed_runtimes' = condensed_runtimes
            ELSE IF ~ClaimIsField(c1 + 2, "src")
            THEN cursor' = c1 + 1 /\ condensed_runtimes' = condensed_runtimes
            ELSE /\ cursor' = c4
                 /\ ClaimPairedKey \in DOMAIN condensed_runtimes'
                 /\ condensed_runtimes'[ClaimPairedKey] =
                        [source_file |-> ClaimFieldValue(ClaimNameLine + 1, "source file"),
                         usr |-> lines[c1 + 1].b,
                         src |-> lines[c1 + 2].b,
                         src_loc |-> ClaimFieldValue(c1 + 3, "src.loc"),
                         count |-> 1]

ClaimValidTimestamp == parts.head \in {H_clock, H_date}

\* what follows the first `]` of the trimmed line
ClaimContents ==
    TrimEnd(parts.sep \o Join(parts.cat \o parts.next \o parts.words, <<" ">>)
            \o parts.pad[2])

ClaimRoundStart == StartsWith(ClaimContents, S_RoundStart)

\* the words of the contents after its leading space
ClaimWords == Split(Tail(ClaimContents), " ")

\* the category token: the word between the leading space and the next space
ClaimCategoryToken == ClaimWords[1]

ClaimHasCategoryToken ==
    /\ ClaimValidTimestamp
    /\ ~ClaimRoundStart
    /\ StartsWith(ClaimContents, <<" ">>)
    /\ EndsWith(ClaimCategoryToken, <<":">>)

\* a token's canonical category: a trailing `:` stripped, leading GAME- removed
ClaimCanonical(token) ==
    TrimStartMatches(IF EndsWith(token, <<":">>)
                     THEN SubSeq(token, 1, Len(token) - 1)
                     ELSE token,
                     GamePrefix)

\* C1: parse_line is total: every call returns a text, none panics.
C1_ParseLineTotal == gpc = "done" => outcome.kind = "ok"

\* C2: a line with a valid timestamp whose canonical category is ADMINPRIVATE,
\* TOPIC or SQL is replaced by that category's placeholder, whatever follows.
C2_AlwaysCensoredCategories ==
    (gpc = "done" /\ ClaimHasCategoryToken) =>
        LET canonical == ClaimCanonical(ClaimCategoryToken) IN
        /\ canonical = S_ADMINPRIVATE => outcome = Returned(Censor(K_private_logtype))
        /\ canonical = S_TOPIC => outcome = Returned(Censor(K_world_topic_logs))
        /\ canonical = S_SQL => outcome = Returned(Censor(K_sql_logs))

\* C2's case: a GAME-SQL: line with words after the category was classified
C2_Witness ==
    /\ gpc = "done"
    /\ ClaimHasCategoryToken
    /\ ClaimCategoryToken = Colon(GamePrefix \o S_SQL)
    /\ Len(parts.words) >= 2
    /\ outcome = Returned(Censor(K_sql_logs))

\* the ACCESS/Login: case: the effective category is ACCESS, Login: follows
ClaimLoginCase ==
    /\ ClaimValidTimestamp
    /\ parts.sep = <<" ">>
    /\ parts.cat \in {<<Colon(S_ACCESS)>>, <<Colon(GamePrefix \o S_ACCESS)>>,
                      <<S_GameCompat, Colon(S_ACCESS)>>}
    /\ parts.next = <<S_Login>>

\* C8: in the ACCESS/Login: case the result is `timestamp] category Login: `
\* and the remaining words joined by single spaces, with exactly the word at
\* position (word_count - 4) replaced by -censored(ip/cid)-.
C8_LoginRebuilt ==
    (gpc = "done" /\ ClaimLoginCase) =>
        LET ws == parts.words
            n == Len(ws)
            category == parts.cat[Len(parts.cat)]
        IN  /\ outcome.kind = "ok"
            /\ n >= 4 =>
                 outcome.text =
                     parts.head \o <<" ">> \o category \o <<" ">> \o S_Login \o <<" ">>
                     \o Join([i \in 1..n |-> IF i - 1 = n - 4
                                             THEN Censor(K_ip_cid)
                                             ELSE ws[i]], <<" ">>)

\* what the category table prescribes for an effective category token
ClaimTable(token, rest) ==
    LET canonical == ClaimCanonical(token)
        timestamp == SubSeq(parts.head, 1, Len(parts.head) - 1)
    IN  IF canonical = S_ACCESS THEN AccessArm(Trim(line), timestamp, token, rest)
        ELSE IF canonical = S_ADMIN THEN AdminArm(Trim(line), rest)
        ELSE IF canonical = S_ADMINPRIVATE THEN Returned(Censor(K_private_logtype))
        ELSE IF canonical = S_TOPIC THEN Returned(Censor(K_world_topic_logs))
        ELSE IF canonical = S_SQL THEN Returned(Censor(K_sql_logs))
        ELSE Returned(Trim(line))

\* C9: after the category token GAME-COMPAT: the next token is the effective
\* category and the line is dispatched as the table prescribes for that
\* token's canonical category; with no next token the result is
\* -censored(game_compat_no_followup)-.
C9_GameCompatDispatch ==
    (gpc = "done" /\ ClaimHasCategoryToken /\ ClaimCategoryToken = S_GameCompat) =>
        IF Len(ClaimWords) < 2
        THEN outcome = Returned(Censor(K_game_compat_no_followup))
        ELSE outcome = ClaimTable(ClaimWords[2], SubSeq(ClaimWords, 3, Len(ClaimWords)))

\* C10: with a valid timestamp and no round-start literal, contents that do
\* not begin with a space give -censored(no_space_after_timestamp)-, and
\* contents that do but whose category token does not end in `:` give
\* -censored(no_category_colon)-, for contents of any length.
C10_SpaceAndColonChecks ==
    (gpc = "done" /\ ClaimValidTimestamp /\ ~ClaimRoundStart) =>
        IF ~StartsWith(ClaimContents, <<" ">>)
        THEN outcome = Returned(Censor(K_no_space_after_timestamp))
        ELSE ~EndsWith(ClaimCategoryToken, <<":">>) =>
                 outcome = Returned(Censor(K_no_category_colon))

\* what follows the first `]` of the line as it was given, untrimmed
ClaimRawContents ==
    parts.sep \o Join(parts.cat \o parts.next \o parts.words, <<" ">>) \o parts.pad[2]

\* C11 as stated: a line with a valid timestamp whose contents begin with
\* ` Starting up round ID ` is returned unchanged, whatever follows.
C11_RoundStartReturnedAsGiven ==
    (gpc = "done" /\ ClaimValidTimestamp /\ StartsWith(ClaimRawContents, S_RoundStart))
        => outcome = Returned(line)

\* C11: a line that, once its surrounding whitespace is trimmed, has a valid
\* timestamp and contents beginning with ` Starting up round ID ` is returned
\* as the trimmed line, whatever follows the literal; no category is looked at.
C11_RoundStartReturnedTrimmed ==
    (gpc = "done" /\ ClaimValidTimestamp /\ ClaimRoundStart)
        => outcome = Returned(parts.head \o ClaimContents)

\* C11's case: a padded round-start line followed by words that would not
\* pass the category check was classified
C11_Witness ==
    /\ gpc = "done"
    /\ ClaimValidTimestamp
    /\ ClaimRoundStart
    /\ parts.pad[1] # <<>>
    /\ parts.next = <<S_Failed>>
    /\ Len(parts.words) >= 2
    /\ outcome = Returned(parts.head \o ClaimContents)

\* the fixed full-line placeholders
ClaimPlaceholders ==
    {Censor(k) : k \in {K_empty_line, K_no_ts_start, K_no_category_colon,
                        K_no_ts_regex_match, K_no_space_after_timestamp,
                        K_game_compat_no_followup, K_invalid_connection_data,
                        K_admin, K_private_logtype, K_world_topic_logs, K_sql_logs}}

\* C12: for every line outside the ACCESS/Login: case, what parse_line returns
\* is the input line, byte for byte, or one of the full-line placeholders.
C12_IdenticalOrPlaceholder ==
    (gpc = "done" /\ ~ClaimLoginCase) =>
        /\ outcome.kind = "ok"
        /\ outcome.text = line \/ outcome.text \in ClaimPlaceholders

ClaimNoTsStart ==
    <<"-", "c", "e", "n", "s", "o", "r", "e", "d", "(", "n", "o", "_", "t", "s", "_",
      "s", "t", "a", "r", "t", ")", "-">>

\* C13 as stated: every line that does not start with `[` is replaced by
\* -censored(no_ts_start)-.
C13_NoBracketCensored ==
    (gpc = "done" /\ (line = <<>> \/ line[1] # "["))
        => outcome = Returned(ClaimNoTsStart)

\* C13: every line that, once its surrounding whitespace is trimmed, is not
\* empty and does not start with `[` is replaced by -censored(no_ts_start)-.
C13_TrimmedNoBracketCensored ==
    (gpc = "done" /\ Trim(line) # <<>> /\ Trim(line)[1] # "[")
        => outcome = Returned(ClaimNoTsStart)

\* C13's case: a padded line without a timestamp was classified
C13_Witness ==
    /\ gpc = "done"
    /\ parts.head = <<>>
    /\ parts.pad[1] # <<>>
    /\ parts.cat = <<Colon(S_SQL)>>
    /\ Len(parts.words) >= 1
    /\ outcome = Returned(ClaimNoTsStart)

(***************************************************************************)
(* Properties of filter_ips.                                               *)
(***************************************************************************)
\* the text has an IPv4-shaped substring
ClaimHasAddress(s) == \E i \in 1..Len(s) : IP_REGEX(s, i) > 0

\* C17: filter_ips is idempotent, redact(redact(t)) = redact(t): replacing an
\* address never creates a new IPv4-shaped substring.
C17_FilterIpsIdempotent ==
    /\ fpc \in {"once", "twice"} => ~ClaimHasAddress(redacted)
    /\ fpc = "twice" => redacted_again = redacted

\* C17's case: a text with an address, a separator and more octets was
\* redacted twice; the replacement stands next to octets that were kept
C17_Witness ==
    /\ fpc = "twice"
    /\ ClaimHasAddress(unfiltered)
    /\ Len(redacted) > Len(S_Censored)
    /\ \E i \in 1..Len(redacted) : IsDigit(redacted[i])
    /\ redacted_again = redacted

(***************************************************************************)
(* Properties of OngoingRoundProtection.  A call that read the map left    *)
(* its path, the map it read and its result in `answer`.                   *)
(***************************************************************************)
\* the component is named round-<id>, <id> an unsigned integer
ClaimIsRoundDir(name) ==
    StartsWith(name, S_RoundDash)
    /\ ParseU64(SubSeq(name, Len(S_RoundDash) + 1, Len(name))) # <<>>

ClaimRoundIdOf(name) == ParseU64(SubSeq(name, Len(S_RoundDash) + 1, Len(name)))[1]

\* the component resolves to a server of the map whose ongoing round id is
\* less than or equal to the component's id
ClaimResolvesToOlderRound(name, round_ids) ==
    /\ ClaimIsRoundDir(name)
    /\ IF config # <<>>
       THEN /\ name \in DOMAIN config[1]
            /\ config[1][name] \in DOMAIN round_ids
            /\ round_ids[config[1][name]] <= ClaimRoundIdOf(name)
       ELSE \E s \in DOMAIN round_ids : round_ids[s] <= ClaimRoundIdOf(name)

\* C15 as stated: path_is_ongoing_round returns true exactly when some
\* component named round-<id> resolves (through the configured map or, with no
\* map, against any server of the cache) to a server whose ongoing round id is
\* less than or equal to <id>; otherwise it returns false.
C15_TrueIffSomeAncestorResolves ==
    answer.read # <<>> =>
        answer.result =
            Bool(\E i \in 1..Len(answer.path) :
                     ClaimResolvesToOlderRound(answer.path[i], answer.read[1]))

\* the components the walk can reach: those with no `..` at or after them
ClaimReached(path) ==
    {i \in 1..Len(path) : \A j \in i..Len(path) : path[j] # DotDot}

\* a component named round-<text>, <text> no unsigned integer
ClaimUnparsable(name) == StartsWith(name, S_RoundDash) /\ ~ClaimIsRoundDir(name)

\* the component settles the result: with a map, the map names a server of
\* the cache for it; with none, its id is the ongoing id of some server
ClaimSettles(name, round_ids) ==
    /\ ClaimIsRoundDir(name)
    /\ IF config # <<>>
       THEN name \in DOMAIN config[1] /\ config[1][name] \in DOMAIN round_ids
       ELSE \E s \in DOMAIN round_ids : round_ids[s] = ClaimRoundIdOf(name)

ClaimMax(S) == CHOOSE i \in S : \A j \in S : j <= i

\* C15: the components are examined from the innermost outwards, up to a `..`
\* component.  The first one named round-<text> whose <text> is no unsigned
\* integer makes the call an error; the first one named round-<id> that
\* settles the result makes it, with a map configured, true exactly when <id>
\* is greater than or equal to the ongoing round id of the server the map
\* names, and with no map configured, true (its <id> equals some server's
\* ongoing round id); whichever comes first counts, and with neither the
\* result is false.
C15_InnermostSettlingAncestorDecides ==
    answer.read # <<>> =>
        LET path == answer.path
            round_ids == answer.read[1]
            stops == {i \in ClaimReached(path) :
                         ClaimUnparsable(path[i]) \/ ClaimSettles(path[i], round_ids)}
            name == path[ClaimMax(stops)]
        IN  answer.result =
                IF stops = {} THEN "false"
                ELSE IF ClaimUnparsable(name) THEN "err"
                ELSE IF config = <<>> THEN "true"
                ELSE Bool(ClaimRoundIdOf(name) >= round_ids[config[1][name]])

\* C15's case: with a map configured, the inner round directory is older than
\* its server's ongoing round and the outer one is not, and the call said no
C15_Witness ==
    /\ config # <<>>
    /\ answer.path = <<RoundDir(<<"3">>), RoundDir(<<"2">>)>>
    /\ answer.read # <<>>
    /\ DOMAIN answer.read[1] = {"s1", "s2"}
    /\ answer.read[1]["s1"] = 3 /\ answer.read[1]["s2"] = 2
    /\ answer.result = "false"

\* a refresh has just failed
ClaimRefreshFailed == taskpc \in {"failed", "panicked"}

\* C16: whenever a periodic refresh fails (the endpoint cannot be reached, the
\* document is malformed, or a round id is no unsigned integer), the task
\* attempts another refresh: while the owner is alive, every failed refresh is
\* eventually followed by another refresh attempt.
C16_FailedRefreshRetried == [](ClaimRefreshFailed => <>(taskpc = "fetching" \/ ~alive))

\* C20: under any interleaving of concurrent calls the cache is initialised
\* by at most one successful initial fetch, at most one refresh task is
\* spawned, and every caller and the task hold the one cache of the cell.
C20_OneCacheOneTask ==
    /\ initial_fetches <= 1
    /\ Len(caches) <= 1
    /\ spawned <= 1
    /\ \A c \in Callers : ids[c] # 0 => last_known_round_ids = <<ids[c]>>
    /\ round_id_loop # <<>> => round_id_loop = last_known_round_ids

\* C20's case: two calls are under way at once, both hold the cache, and the
\* task spawned by one of them has refreshed it
C20_Witness ==
    /\ \A c \in Callers : cpc[c] = "query" /\ ids[c] = 1
    /\ initial_fetches = 1
    /\ spawned = 1
    /\ taskpc = "fetching"
    /\ DOMAIN caches[1] = {"s1", "s2"}

\* the maps a successful fetch can yield
ClaimFetchedMaps ==
    {fetch_ongoing_rounds(response).round_ids :
         response \in {r \in Responses : fetch_ongoing_rounds(r).kind = "ok"}}

\* every cached map is a map some fetch yielded, whole
ClaimCachedMapsWereFetched ==
    /\ \A i \in 1..Len(caches) : caches[i] \in ClaimFetchedMaps
    /\ answer.read # <<>> => answer.read[1] \in ClaimFetchedMaps

\* a refresh that ends in failure changes neither the map nor the cell; the
\* map changes only in the step that ends a fetch
ClaimRefreshStep ==
    /\ (taskpc = "fetching" /\ taskpc' \in {"failed", "panicked"}) =>
           caches' = caches /\ last_known_round_ids' = last_known_round_ids
    /\ caches' # caches =>
           \/ taskpc = "fetching" /\ taskpc' = "sleep" /\ Len(caches') = Len(caches)
           \/ \E c \in Callers :
                  cpc[c] = "fetching" /\ cpc'[c] = "spawn"
                  /\ SubSeq(caches', 1, Len(caches)) = caches

\* C22: a failed background refresh leaves the cached map exactly as it was,
\* so path_is_ongoing_round keeps answering from the last successfully fetched
\* map; the map only changes by being replaced as a whole after a successful
\* fetch.
C22_FailedRefreshKeepsMap == [][ClaimRefreshStep]_vars /\ []ClaimCachedMapsWereFetched

\* C22's case: a refresh has failed, and a call made after the failure was
\* answered from the two-server map fetched before it
C22_Witness ==
    /\ taskpc = "failed"
    /\ Len(caches) = 1
    /\ DOMAIN caches[1] = {"s1", "s2"}
    /\ answer.read = <<caches[1]>>
    /\ answer.path = <<RoundDir(<<"3">>)>>
    /\ answer.result = "true"

\* the step ends caller c's initial fetch in failure: the cell is left unset
ClaimInitialFetchFails(c) ==
    /\ cpc[c] = "fetching"
    /\ cpc'[c] # "fetching"
    /\ last_known_round_ids' = <<>>

\* C23: if the initial fetch fails, path_is_ongoing_round returns an error,
\* the cache stays uninitialised, no refresh task is started, and a later call
\* retries the initial fetch (the cell's permit is free again).
C23_FailedInitialFetchReturnsError ==
    [][\A c \in Callers :
           ClaimInitialFetchFails(c) =>
               /\ answer'.result = "err"
               /\ cpc'[c] = "idle"
               /\ caches' = <<>>
               /\ round_id_loop' = <<>> /\ taskpc' = "unspawned" /\ spawned' = 0
               /\ permit' = "none"]_vars

=============================================================================
